---- MODULE Spec2Model ----
(***************************************************************************)
(* Force-angle pushing controller (force_push.control.Controller) and the  *)
(* path it tracks.                                                         *)
(*                                                                         *)
(* Numbers.  Angles are whole multiples of one angle unit, with            *)
(* QuarterTurn units in pi/2, so PI == 2*QuarterTurn.  Lengths, forces,    *)
(* gains and time steps are whole numbers.  A float that is NaN is the     *)
(* value NaN; the arithmetic below propagates it the way IEEE-754 does     *)
(* (0 * NaN is NaN, every comparison with NaN is false).                   *)
(*                                                                         *)
(* Vectors.  A path point is a pair <<x, y>>.  A force or a velocity is    *)
(* kept in polar form [r |-> norm, a |-> angle], angle in (-PI, PI], the   *)
(* zero vector being [r |-> 0, a |-> 0]; rotating it adds to a, scaling it *)
(* multiplies r, its norm is r.                                            *)
(***************************************************************************)
EXTENDS Integers, Sequences, FiniteSets, TLC

\* ------------------------------------------------------------------ bounds
QuarterTurn == 1
MaxForce == 3
MaxDt == 1
MaxYcInt == 1
MaxThetaInt == 1
MaxCoord == 2
MaxLen == 2

PI == 2 * QuarterTurn

\* ------------------------------------------------------- float arithmetic
NaN == 1000

IsNaN(x) == x = NaN

FAdd(x, y) == IF IsNaN(x) \/ IsNaN(y) THEN NaN ELSE x + y

FSub(x, y) == IF IsNaN(x) \/ IsNaN(y) THEN NaN ELSE x - y

FMul(x, y) == IF IsNaN(x) \/ IsNaN(y) THEN NaN ELSE x * y

Abs(x) == IF x < 0 THEN -x ELSE x

\* np.sign: -1, 0 or 1, and NaN for NaN
sign(x) == IF IsNaN(x) THEN NaN ELSE IF x > 0 THEN 1 ELSE IF x < 0 THEN -1 ELSE 0

\* ----------------------------------------------------------------- util
\* wrap an angle into (-PI, PI]; NaN stays NaN
wrap_to_pi(x) ==
    IF IsNaN(x) THEN NaN
    ELSE LET m == x % (2 * PI) IN IF m > PI THEN m - 2 * PI ELSE m

NaNVec == [r |-> NaN, a |-> NaN]

IsNaNVec(v) == IsNaN(v.r) \/ IsNaN(v.a)

\* np.linalg.norm
norm(v) == v.r

\* a / norm(a): 0/0 for the zero vector
unit(v) ==
    IF IsNaNVec(v) \/ v.r = 0 THEN NaNVec ELSE [r |-> 1, a |-> v.a]

\* the angle that rotates a onto b, in (-PI, PI]
signed_angle(a, b) ==
    IF IsNaNVec(a) \/ IsNaNVec(b) THEN NaN ELSE wrap_to_pi(b.a - a.a)

\* rot2d(angle) @ v
rot2d(angle, v) ==
    IF IsNaN(angle) \/ IsNaNVec(v) THEN NaNVec
    ELSE IF v.r = 0 THEN v
    ELSE [r |-> v.r, a |-> wrap_to_pi(v.a + angle)]

\* s * v for a scalar s >= 0
scale(s, v) ==
    IF IsNaN(s) \/ IsNaNVec(v) THEN NaNVec
    ELSE IF s * v.r = 0 THEN [r |-> 0, a |-> 0]
    ELSE [r |-> s * v.r, a |-> v.a]

\* perp @ v where perp is v0 rotated by pi/2 and v0, v are unit vectors:
\* the sign of sin(v.a - v0.a)
PerpDotSign(v0, v) ==
    IF IsNaNVec(v0) \/ IsNaNVec(v) THEN NaN
    ELSE LET d == wrap_to_pi(v.a - v0.a)
         IN  IF d = 0 \/ d = PI THEN 0 ELSE IF d > 0 THEN 1 ELSE -1

\* ----------------------------------------------------------------- path
\* LineSegment(v1, v2, infinite) with axis-aligned direction
LineSegment(v1, v2, infinite) == [v1 |-> v1, v2 |-> v2, infinite |-> infinite]

SegLength(seg) == Abs(seg.v2[1] - seg.v1[1]) + Abs(seg.v2[2] - seg.v1[2])

\* unit(v2 - v1) as a pair; <<0, 0>> for a zero-length segment
direction(seg) ==
    LET L == SegLength(seg)
    IN  IF L = 0 THEN <<0, 0>>
        ELSE <<(seg.v2[1] - seg.v1[1]) \div L, (seg.v2[2] - seg.v1[2]) \div L>>

Dot(u, v) == u[1] * v[1] + u[2] * v[2]

Cross(u, v) == u[1] * v[2] - u[2] * v[1]

\* the projection parameter never moved off v1
ClampedProj_at_start(seg, p) == 0

\* the projection parameter clamped below only, for every segment
ClampedProj_ray(seg, p) ==
    LET proj == Dot(direction(seg), <<p[1] - seg.v1[1], p[2] - seg.v1[2]>>)
    IN  IF proj < 0 THEN 0 ELSE proj

\* the projection parameter of p clamped to [0, L], or to [0, oo) if infinite
ClampedProj(seg, p) ==
    LET proj == Dot(direction(seg), <<p[1] - seg.v1[1], p[2] - seg.v1[2]>>)
        L    == SegLength(seg)
    IN  IF proj < 0 THEN 0
        ELSE IF ~seg.infinite /\ proj > L THEN L
        ELSE proj

\* the distance taken to the line through v1 and v2, not to the closest point
closest_point_and_distance_to_line(seg, p) ==
    LET t == ClampedProj(seg, p)
        d == direction(seg)
        c == <<seg.v1[1] + t * d[1], seg.v1[2] + t * d[2]>>
        x == Cross(d, <<p[1] - seg.v1[1], p[2] - seg.v1[2]>>)
    IN  [closest |-> c, distsq |-> x * x]

\* closest_point_and_distance(p): the closest point and the squared distance
closest_point_and_distance(seg, p) ==
    LET t == ClampedProj(seg, p)
        d == direction(seg)
        c == <<seg.v1[1] + t * d[1], seg.v1[2] + t * d[2]>>
    IN  [closest |-> c,
         distsq  |-> (p[1] - c[1]) * (p[1] - c[1]) + (p[2] - c[2]) * (p[2] - c[2])]

\* the whole square root of a perfect square
Sqrt(n) == CHOOSE k \in 0..n : k * k = n

\* index of the nearest segment, the latest on ties
NearestIndex_latest(segments, p) ==
    CHOOSE i \in 1..Len(segments) :
        /\ \A j \in 1..Len(segments) :
              closest_point_and_distance(segments[i], p).distsq
                 <= closest_point_and_distance(segments[j], p).distsq
        /\ \A j \in (i + 1)..Len(segments) :
              closest_point_and_distance(segments[j], p).distsq
                 > closest_point_and_distance(segments[i], p).distsq

\* index of the nearest segment, the earliest on ties
NearestIndex(segments, p) ==
    CHOOSE i \in 1..Len(segments) :
        /\ \A j \in 1..Len(segments) :
              closest_point_and_distance(segments[i], p).distsq
                 <= closest_point_and_distance(segments[j], p).distsq
        /\ \A j \in 1..(i - 1) :
              closest_point_and_distance(segments[j], p).distsq
                 > closest_point_and_distance(segments[i], p).distsq

\* a unit pair as a polar unit vector
DirAngle(d) ==
    IF d = <<1, 0>> THEN 0
    ELSE IF d = <<0, 1>> THEN QuarterTurn
    ELSE IF d = <<-1, 0>> THEN PI
    ELSE -QuarterTurn

\* the offset signed the other way round
compute_direction_and_offset_mirrored(segments, origin, p) ==
    LET q   == <<p[1] - origin[1], p[2] - origin[2]>>
        i   == NearestIndex(segments, q)
        cd  == closest_point_and_distance(segments[i], q)
        d   == direction(segments[i])
        sgn == sign(Cross(<<q[1] - cd.closest[1], q[2] - cd.closest[2]>>, d))
    IN  [pathdir |-> [r |-> 1, a |-> DirAngle(d)],
         yc      |-> sgn * Sqrt(cd.distsq)]

\* SegmentPath.compute_direction_and_offset(p)
compute_direction_and_offset(segments, origin, p) ==
    LET q   == <<p[1] - origin[1], p[2] - origin[2]>>
        i   == NearestIndex(segments, q)
        cd  == closest_point_and_distance(segments[i], q)
        d   == direction(segments[i])
        sgn == sign(Cross(d, <<q[1] - cd.closest[1], q[2] - cd.closest[2]>>))
    IN  [pathdir |-> [r |-> 1, a |-> DirAngle(d)],
         yc      |-> sgn * Sqrt(cd.distsq)]

\* the path of test_segment_path: a unit segment, then a ray turning left
path == <<LineSegment(<<0, 0>>, <<1, 0>>, FALSE), LineSegment(<<1, 0>>, <<1, 1>>, TRUE)>>

origin == <<0, 0>>

\* --------------------------------------------------------- configuration
speed == 2
k_theta == 1
ky == 1
ki_theta == 1
ki_y == 1
force_min == 2
con_inc == 1
div_inc == 1
\* corridor_radius = np.inf: no |yc| reaches it
NoCorridor == -1
CorridorRadius == 1
ForceMaxLow == 0
ForceMaxHigh == 2

\* ------------------------------------------------------------- controller
VARIABLES
    corridor_radius,  \* configuration: CorridorRadius or NoCorridor
    force_max,        \* configuration: ForceMaxHigh or ForceMaxLow
    first_contact,
    yc_int,
    theta_d_int,
    theta_p,
    inc_sign,
    out,              \* the caller's v_cmd: the velocity last returned
    raised,           \* whether the last call ended with an exception
    call,             \* the last call: its kind and what it was given
    quiet,            \* every tick since construction or reset had f_norm < force_min
    query             \* the last query put to a segment or a path, with its answer

vars == <<corridor_radius, force_max, first_contact, yc_int, theta_d_int,
          theta_p, inc_sign, out, raised, call, quiet, query>>

config == <<corridor_radius, force_max>>

\* the mutable fields of the controller
Fields ==
    [first_contact |-> first_contact, yc_int |-> yc_int, theta_d_int |-> theta_d_int,
     theta_p |-> theta_p, inc_sign |-> inc_sign]

\* the inputs of a tick; the positions are points whose distance to the path
\* is a whole number
Positions == {<<0, 0>>, <<0, 1>>, <<0, -1>>, <<1, 1>>, <<2, 1>>}

Forces ==
    {[r |-> 0, a |-> 0]} \cup {[r |-> r, a |-> a] : r \in 1..MaxForce, a \in (1 - PI)..PI}

Dts == 0..MaxDt

\* compute_direction_and_offset at every position, computed once
PathRows ==
    {[position |-> p, po |-> compute_direction_and_offset(path, origin, p)] : p \in Positions}

PathAt(position) == (CHOOSE row \in PathRows : row.position = position).po

\* the controllers constructed: the scripts' open space and thresholds, one
\* with a finite corridor, one with force_max below force_min
Configurations ==
    {<<NoCorridor, ForceMaxHigh>>, <<CorridorRadius, ForceMaxHigh>>,
     <<NoCorridor, ForceMaxLow>>}

\* the values of the mutable fields after construction
Constructed ==
    [first_contact |-> FALSE, yc_int |-> 0, theta_d_int |-> 0, theta_p |-> 0,
     inc_sign |-> 1]

NoVelocity == [r |-> 0, a |-> 0]

NoCall == [op |-> "init", pathdir |-> 0, yc |-> 0, dt |-> 0, before |-> FALSE]

\* no query made yet
NoQuery ==
    [op |-> "none", segments |-> <<>>, origin |-> <<0, 0>>, p |-> <<0, 0>>,
     closest |-> <<0, 0>>, distsq |-> 0, pathdir |-> 0, yc |-> 0]

Init ==
    /\ \E c \in Configurations : corridor_radius = c[1] /\ force_max = c[2]
    /\ first_contact = Constructed.first_contact
    /\ yc_int = Constructed.yc_int
    /\ theta_d_int = Constructed.theta_d_int
    /\ theta_p = Constructed.theta_p
    /\ inc_sign = Constructed.inc_sign
    /\ out = NoVelocity
    /\ raised = FALSE
    /\ call = NoCall
    /\ quiet = TRUE
    /\ query = NoQuery

\* reset() that forgets one field
reset_keeps_inc_sign ==
    /\ first_contact' = FALSE
    /\ yc_int' = 0
    /\ theta_d_int' = 0
    /\ theta_p' = 0
    /\ inc_sign' = inc_sign
    /\ raised' = FALSE
    /\ call' = [NoCall EXCEPT !.op = "reset", !.before = first_contact]
    /\ quiet' = TRUE
    /\ UNCHANGED <<config, out, query>>

\* reset()
reset ==
    /\ first_contact' = FALSE
    /\ yc_int' = 0
    /\ theta_d_int' = 0
    /\ theta_p' = 0
    /\ inc_sign' = 1
    /\ raised' = FALSE
    /\ call' = [NoCall EXCEPT !.op = "reset", !.before = first_contact]
    /\ quiet' = TRUE
    /\ UNCHANGED <<config, out, query>>

\* the early return taken on every tick with a low force, contact made or not
Bail_on_every_low_force(fc, f_norm) == f_norm < force_min

\* "if not self.first_contact: if f_norm < self.force_min: return"
Bail(fc, f_norm) == ~fc /\ f_norm < force_min

\* the Seeking return without the speed factor
SeekingVelocity_unscaled(pathdir) == pathdir

\* "return self.speed * pathdir"
SeekingVelocity(pathdir) == scale(speed, pathdir)

\* first_contact recomputed from the force of every tick
ContactAfter_unlatched(fc, f_norm) == ~(f_norm < force_min)

\* first_contact after a tick that did not bail: "self.first_contact = True"
\* runs when it was false, nothing writes it when it was true
ContactAfter(fc, f_norm) == IF ~fc THEN TRUE ELSE fc

\* "self.yc_int += dt * yc", "self.θd_int += dt * θd"
Integrate(acc, dt, x) == FAdd(acc, FMul(dt, x))

\* the branches tried in the other order
Rule_diverging_first(f_norm) ==
    IF f_norm > force_max THEN "Diverging"
    ELSE IF f_norm < force_min THEN "Recovering"
    ELSE "Tracking"

\* the branch of the pushing-angle rule
Rule(f_norm) ==
    IF f_norm < force_min THEN "Recovering"
    ELSE IF f_norm > force_max THEN "Diverging"
    ELSE "Tracking"

\* the recovery step with the wrong sign
RecoverAngle_plus(tp, inc) == FAdd(tp, FMul(inc, con_inc))

RecoverAngle(tp, inc) == FSub(tp, FMul(inc, con_inc))

DivergeAngle(tp, td) == FAdd(tp, FMul(sign(td), div_inc))

TrackAngle(td, yc, ti, yi) ==
    FAdd(FAdd(FAdd(FMul(1 + k_theta, td), FMul(ky, yc)), FMul(ki_theta, ti)),
         FMul(ki_y, yi))

\* the Diverging step taken along the stored inc_sign
PushAngle_diverge_by_inc_sign(rule, tp, inc, td, yc, ti, yi) ==
    IF rule = "Recovering" THEN RecoverAngle(tp, inc)
    ELSE IF rule = "Diverging" THEN FAdd(tp, FMul(inc, div_inc))
    ELSE TrackAngle(td, yc, ti, yi)

\* the Tracking angle added to the previous angle
PushAngle_incremental(rule, tp, inc, td, yc, ti, yi) ==
    IF rule = "Recovering" THEN RecoverAngle(tp, inc)
    ELSE IF rule = "Diverging" THEN DivergeAngle(tp, td)
    ELSE FAdd(tp, TrackAngle(td, yc, ti, yi))

PushAngle(rule, tp, inc, td, yc, ti, yi) ==
    IF rule = "Recovering" THEN RecoverAngle(tp, inc)
    ELSE IF rule = "Diverging" THEN DivergeAngle(tp, td)
    ELSE TrackAngle(td, yc, ti, yi)

\* inc_sign written by every post-contact tick
NewIncSign_every_tick(rule, inc, td) == sign(td)

\* inc_sign taken as the angle itself, np.sign forgotten
NewIncSign_raw(rule, inc, td) == IF rule = "Tracking" THEN td ELSE inc

\* "self.inc_sign = np.sign(θd)", in the Tracking branch only
NewIncSign(rule, inc, td) == IF rule = "Tracking" THEN sign(td) ELSE inc

\* "self.θp = util.wrap_to_pi(θp)"
StoredAngle(tp) == wrap_to_pi(tp)

\* "if np.abs(yc) >= self.corridor_radius"
CorridorHit(yc) == corridor_radius # NoCorridor /\ Abs(yc) >= corridor_radius

\* whether the name "off" is bound where update reads it: it is neither a
\* local of update nor a global of control.py
OffIsBound == FALSE

\* the corridor branch: reading "off" raises NameError before pushdir changes
CorridorRaises(yc) == CorridorHit(yc) /\ ~OffIsBound

\* Controller.update after the path query: from the fields s, the path
\* direction and offset at the position, the force and dt, to the fields after
\* the call, whether it raised, the velocity it returned and its branch
Respond(s, pathdir, yc, force, dt) ==
    LET f_norm == norm(force)
    IN  IF Bail(s.first_contact, f_norm)
        THEN [fields |-> s, raised |-> FALSE, velocity |-> SeekingVelocity(pathdir),
              op |-> "Seeking", pathdir |-> pathdir.a, yc |-> yc]
        ELSE LET td      == signed_angle(pathdir, unit(force))
                 yi      == Integrate(s.yc_int, dt, yc)
                 ti      == Integrate(s.theta_d_int, dt, td)
                 rule    == Rule(f_norm)
                 tp      == StoredAngle(PushAngle(rule, s.theta_p, s.inc_sign, td, yc, ti, yi))
                 pushdir == rot2d(tp, pathdir)
             IN  [fields |-> [first_contact |-> ContactAfter(s.first_contact, f_norm),
                              yc_int |-> yi, theta_d_int |-> ti, theta_p |-> tp,
                              inc_sign |-> NewIncSign(rule, s.inc_sign, td)],
                  raised |-> CorridorRaises(yc),
                  velocity |-> IF CorridorRaises(yc) THEN NoVelocity
                               ELSE scale(speed, pushdir),
                  op |-> rule, pathdir |-> pathdir.a, yc |-> yc]

\* Controller.update as a function of the fields s and the inputs
Step(s, position, force, dt) ==
    Respond(s, PathAt(position).pathdir, PathAt(position).yc, force, dt)

\* the integrals stay within the model's bounds
InBounds(s) ==
    /\ Abs(s.yc_int) <= MaxYcInt
    /\ IsNaN(s.theta_d_int) \/ Abs(s.theta_d_int) <= MaxThetaInt

\* update(position, force, dt), called as "v_cmd = controller.update(...)":
\* a call that raises leaves v_cmd as it was
update(position, force, dt) ==
    \E r \in {Step(Fields, position, force, dt)} :
        /\ InBounds(r.fields)
        /\ first_contact' = r.fields.first_contact
        /\ yc_int' = r.fields.yc_int
        /\ theta_d_int' = r.fields.theta_d_int
        /\ theta_p' = r.fields.theta_p
        /\ inc_sign' = r.fields.inc_sign
        /\ raised' = r.raised
        /\ out' = IF r.raised THEN out ELSE r.velocity
        /\ call' = [op |-> r.op, pathdir |-> r.pathdir, yc |-> r.yc, dt |-> dt,
                    before |-> first_contact]
        /\ quiet' = (quiet /\ norm(force) < force_min)
        /\ UNCHANGED <<config, query>>

Tick == \E position \in Positions, force \in Forces, dt \in Dts : update(position, force, dt)

Next == Tick \/ reset

Spec == Init /\ [][Next]_vars

\* ----------------------------------------------------------- path queries
Coords == (-MaxCoord)..MaxCoord

Points == {<<x, y>> : x \in Coords, y \in Coords}

Steps == {<<1, 0>>, <<0, 1>>, <<-1, 0>>, <<0, -1>>}

\* v moved n steps along d
Along(v, d, n) == <<v[1] + n * d[1], v[2] + n * d[2]>>

\* the segments queried: the zero-length ones, and those of length 1..MaxLen
\* along an axis, ending at v2 or running on past it
Segments ==
    {LineSegment(v1, v1, FALSE) : v1 \in Points}
    \cup {LineSegment(v1, Along(v1, d, n), inf) :
             v1 \in Points, d \in Steps, n \in 1..MaxLen, inf \in BOOLEAN}

\* the paths queried: one segment from <<0, 0>>, or a finite one followed by a
\* second that starts where it ends; only the last may be infinite
Paths ==
    {<<LineSegment(<<0, 0>>, Along(<<0, 0>>, d, n), inf)>> :
         d \in Steps, n \in 1..MaxLen, inf \in BOOLEAN}
    \cup {<<LineSegment(<<0, 0>>, Along(<<0, 0>>, d[1], n[1]), FALSE),
            LineSegment(Along(<<0, 0>>, d[1], n[1]),
                        Along(Along(<<0, 0>>, d[1], n[1]), d[2], n[2]), inf)>> :
             d \in Steps \X Steps, n \in (1..MaxLen) \X (1..MaxLen), inf \in BOOLEAN}

Origins == {<<0, 0>>, <<1, -1>>}

IsSquare(n) == \E k \in 0..n : k * k = n

\* the squared distance from p to the path
PathDistSq(segments, o, p) ==
    LET q == <<p[1] - o[1], p[2] - o[2]>>
    IN  closest_point_and_distance(segments[NearestIndex(segments, q)], q).distsq

controller ==
    <<corridor_radius, force_max, first_contact, yc_int, theta_d_int, theta_p,
      inc_sign, out, raised, call, quiet>>

\* a query not yet answered
Ask(op, segments, o, p) ==
    [NoQuery EXCEPT !.op = op, !.segments = segments, !.origin = o, !.p = p]

\* the queries put: every segment with every point, and every path with every
\* point whose distance to it is a whole number
Queries ==
    {Ask("closest?", <<seg>>, <<0, 0>>, p) : seg \in Segments, p \in Points}
    \cup {Ask("offset?", segments, o, p) : segments \in Paths, o \in Origins, p \in Points}

\* a controller is constructed and a query is about to be made
GeomInit ==
    /\ corridor_radius = NoCorridor
    /\ force_max = ForceMaxHigh
    /\ first_contact = Constructed.first_contact
    /\ yc_int = Constructed.yc_int
    /\ theta_d_int = Constructed.theta_d_int
    /\ theta_p = Constructed.theta_p
    /\ inc_sign = Constructed.inc_sign
    /\ out = NoVelocity
    /\ raised = FALSE
    /\ call = NoCall
    /\ quiet = TRUE
    /\ query \in Queries

\* segment.closest_point_and_distance(p)
QueryClosestPoint ==
    /\ query.op = "closest?"
    /\ \E r \in {closest_point_and_distance(query.segments[1], query.p)} :
          query' = [query EXCEPT !.op = "closest", !.closest = r.closest,
                                 !.distsq = r.distsq]
    /\ UNCHANGED controller

\* path.compute_direction_and_offset(p)
QueryDirectionAndOffset ==
    /\ query.op = "offset?"
    /\ IsSquare(PathDistSq(query.segments, query.origin, query.p))
    /\ \E r \in {compute_direction_and_offset(query.segments, query.origin, query.p)} :
          query' = [query EXCEPT !.op = "offset", !.pathdir = r.pathdir.a, !.yc = r.yc]
    /\ UNCHANGED controller

GeomNext == QueryClosestPoint \/ QueryDirectionAndOffset

GeomSpec == GeomInit /\ [][GeomNext]_vars

\* ------------------------------------------------------------------ claims
TickOps == {"Seeking", "Tracking", "Recovering", "Diverging"}

PostContactOps == {"Tracking", "Recovering", "Diverging"}

\* the path direction the last tick was given
LastPathdir == [r |-> 1, a |-> call.pathdir]

\* C1: every velocity update returns has norm speed, on every kind of tick and
\* also on the ticks where |yc| >= corridor_radius
C1_OutputNormIsSpeed ==
    call.op \in TickOps => (~raised /\ norm(out) = speed)

\* C2: while every tick since construction or reset has had f_norm < force_min,
\* update returns exactly speed * pathdir, whatever the force direction and dt
C2_SeekingIsPathFollowing ==
    (call.op \in TickOps /\ quiet) => (~raised /\ out = scale(speed, LastPathdir))

\* C2 witness: a quiet tick on the second segment returned speed along it
C2_Witness ==
    /\ call.op = "Seeking"
    /\ quiet
    /\ call.pathdir = QuarterTurn
    /\ out = [r |-> speed, a |-> QuarterTurn]

\* C3: once first_contact is true, no update sets it back to false; only
\* reset clears it
C3_FirstContactLatch ==
    [][(first_contact /\ call'.op # "reset") => first_contact']_vars

\* C3 witness: a low-force tick after contact left first_contact true
C3_Witness == call.op = "Recovering" /\ call.before /\ first_contact

\* C4: reset restores first_contact, yc_int, theta_d_int, theta_p and inc_sign
\* to their construction values, so every next tick gives what a freshly
\* constructed controller gives
C4_ResetRestoresConstruction ==
    call.op = "reset" =>
        /\ Fields = Constructed
        /\ \A position \in Positions, force \in Forces, dt \in Dts :
              Step(Fields, position, force, dt) = Step(Constructed, position, force, dt)

\* C4 witness: reset was called on a controller that had made contact
C4_Witness == call.op = "reset" /\ call.before /\ Fields = Constructed

\* C5: the stored theta_p always lies in (-PI, PI]
C5_ThetaPInHalfOpenInterval == theta_p > -PI /\ theta_p <= PI

\* C6 as claimed: on a Recovering tick theta_p differs from its previous value
\* by exactly -inc_sign*con_inc
C6_RecoveryStepExact ==
    [][call'.op = "Recovering" => theta_p' = FSub(theta_p, FMul(inc_sign, con_inc))]_vars

\* C6 as amended: on a Recovering tick theta_p is its previous value minus
\* inc_sign*con_inc wrapped into (-PI, PI], so the step is exact only modulo
\* 2*PI
C6_RecoveryStepWrapped ==
    [][call'.op = "Recovering" =>
          theta_p' = wrap_to_pi(FSub(theta_p, FMul(inc_sign, con_inc)))]_vars

\* C6 witness: a recovery step with inc_sign = 1 left theta_p at PI, which it
\* reaches only by wrapping -PI
C6_Witness ==
    call.op = "Recovering" /\ call.before /\ inc_sign = 1 /\ theta_p = PI

\* C7: update never raises, also on ticks with |yc| >= corridor_radius
C7_UpdateNeverRaises == ~raised

\* C8: on a tick with |yc| >= corridor_radius, a pushing direction whose normal
\* component points to the side of yc comes back with no normal component;
\* one pointing back to the path comes back unchanged
C8_CorridorProjection ==
    LET pushdir == rot2d(theta_p, LastPathdir)
        side    == PerpDotSign(LastPathdir, pushdir)
        away    == /\ ~IsNaN(side)
                   /\ \/ call.yc > 0 /\ side > 0
                      \/ call.yc < 0 /\ side < 0
    IN  (call.op \in TickOps /\ CorridorHit(call.yc)) =>
            /\ ~raised
            /\ IF away THEN PerpDotSign(LastPathdir, out) = 0
               ELSE out = scale(speed, pushdir)

\* C9 as claimed: inc_sign is always +1 or -1, never 0
C9_IncSignNeverZero == inc_sign \in {-1, 1}

\* C9 as amended: inc_sign is always -1, 0 or +1
C9_IncSignIsASign == inc_sign \in {-1, 0, 1}

\* C9 witness: a Recovering tick taken with inc_sign = 0
C9_Witness == call.op = "Recovering" /\ inc_sign = 0

\* C10: an update with dt = 0 leaves yc_int and theta_d_int as they were
C10_ZeroDtKeepsIntegrals ==
    [][(call'.op \in TickOps /\ call'.dt = 0) =>
          (yc_int' = yc_int /\ theta_d_int' = theta_d_int)]_vars

\* C11: after first contact a zero-magnitude force never leaves an undefined
\* angle behind: theta_d_int and theta_p are never NaN and no returned
\* velocity is NaN
C11_NoNaNStoredOrReturned ==
    ~IsNaN(theta_d_int) /\ ~IsNaN(theta_p) /\ ~IsNaNVec(out)

\* C12: no controller with force_max < force_min ever takes an update
C12_ThresholdsOrdered ==
    call.op \in TickOps => force_max >= force_min

\* the segment and the point of the last closest-point query
QSeg == query.segments[1]

Minus(u, v) == <<u[1] - v[1], u[2] - v[2]>>

DistSq(u, v) == Dot(Minus(u, v), Minus(u, v))

\* p lies on the line through v1 and v2, between v1 and v2
Between(seg, p) ==
    /\ Cross(Minus(seg.v2, seg.v1), Minus(p, seg.v1)) = 0
    /\ Dot(Minus(seg.v2, seg.v1), Minus(p, seg.v1)) >= 0
    /\ Dot(Minus(seg.v1, seg.v2), Minus(p, seg.v2)) >= 0

\* the points of the segment, or of the ray as far as any queried point
\* projects
PointsOf(seg) ==
    {Along(seg.v1, direction(seg), k) :
        k \in 0..(IF seg.infinite THEN 2 * MaxCoord + MaxLen ELSE SegLength(seg))}

\* C13: for a segment with v1 # v2 and a point p on it between the endpoints,
\* endpoints included, closest_point_and_distance(p) returns p and distance 0
C13_PointOnSegmentIsItsOwnClosest ==
    (query.op = "closest" /\ QSeg.v1 # QSeg.v2 /\ Between(QSeg, query.p)) =>
        (query.closest = query.p /\ query.distsq = 0)

\* C13 witness: the midpoint of a segment of length 2 was queried and returned
C13_Witness ==
    /\ query.op = "closest"
    /\ QSeg = LineSegment(<<0, 0>>, <<2, 0>>, FALSE)
    /\ query.p = <<1, 0>>
    /\ query.closest = <<1, 0>>
    /\ query.distsq = 0

\* C14: the projection parameter is clamped to the segment, or for an infinite
\* segment only at v1: beyond v2 a finite segment returns v2 and an infinite
\* one the projection itself, before v1 both return v1; the distance is the
\* distance from p to the point returned, and no point of the segment or ray
\* is nearer
C14_ClampedClosestPoint ==
    (query.op = "closest" /\ QSeg.v1 # QSeg.v2) =>
        LET proj == Dot(direction(QSeg), Minus(query.p, QSeg.v1))
        IN  /\ proj < 0 => query.closest = QSeg.v1
            /\ (proj > SegLength(QSeg) /\ ~QSeg.infinite) => query.closest = QSeg.v2
            /\ (proj > SegLength(QSeg) /\ QSeg.infinite) =>
                   query.closest = Along(QSeg.v1, direction(QSeg), proj)
            /\ query.closest \in PointsOf(QSeg)
            /\ query.distsq = DistSq(query.p, query.closest)
            /\ \A c \in PointsOf(QSeg) : query.distsq <= DistSq(query.p, c)

\* C14 witness: the point <<2, 0>> beyond the end of the unit segment from the
\* origin along x came back with v2 at distance 1
C14_Witness ==
    /\ query.op = "closest"
    /\ QSeg = LineSegment(<<0, 0>>, <<1, 0>>, FALSE)
    /\ query.p = <<2, 0>>
    /\ query.closest = <<1, 0>>
    /\ query.distsq = 1

\* C14 witness on a ray: the same point on the infinite segment came back as
\* itself
C14_WitnessRay ==
    /\ query.op = "closest"
    /\ QSeg = LineSegment(<<0, 0>>, <<1, 0>>, TRUE)
    /\ query.p = <<2, 1>>
    /\ query.closest = <<2, 0>>
    /\ query.distsq = 1

\* C15: for a zero-length segment closest_point_and_distance(p) returns v1
\* and the distance from p to v1, for every p
C15_ZeroLengthSegmentIsAPoint ==
    (query.op = "closest" /\ QSeg.v1 = QSeg.v2) =>
        (query.closest = QSeg.v1 /\ query.distsq = DistSq(query.p, QSeg.v1))

\* C15 witness: the segment from <<1, 0>> to <<1, 0>> queried off the point
C15_Witness ==
    /\ query.op = "closest"
    /\ QSeg = LineSegment(<<1, 0>>, <<1, 0>>, FALSE)
    /\ query.p = <<0, 1>>
    /\ query.closest = <<1, 0>>
    /\ query.distsq = 2

\* the point of the last path query in the frame of the path
QPoint == Minus(query.p, query.origin)

\* the closest point of segment i to the point of the last path query
QClosest(i) == closest_point_and_distance(query.segments[i], QPoint).closest

QDistSq(i) == DistSq(QPoint, QClosest(i))

\* segment i is at the least distance and no earlier segment is as near
QSelected(i) ==
    /\ \A j \in 1..Len(query.segments) : QDistSq(i) <= QDistSq(j)
    /\ \A j \in 1..(i - 1) : QDistSq(j) # QDistSq(i)

\* the 2-D cross product of segment i's direction with p - closest_point
QCross(i) == Cross(direction(query.segments[i]), Minus(QPoint, QClosest(i)))

\* C16: compute_direction_and_offset(p) returns the direction of the segment
\* nearest to p - origin, and of the earliest such segment when several are
\* equally near
C16_NearestSegmentEarliestOnTies ==
    query.op = "offset" =>
        \E i \in 1..Len(query.segments) :
            /\ QSelected(i)
            /\ query.pathdir = DirAngle(direction(query.segments[i]))

\* C16 witness: <<2, 0>> is at distance 1 from both segments of the corner
\* path and got the direction of the first
C16_Witness ==
    /\ query.op = "offset"
    /\ query.segments = path
    /\ query.origin = <<0, 0>>
    /\ query.p = <<2, 0>>
    /\ QDistSq(1) = QDistSq(2)
    /\ query.pathdir = 0

C17_WitnessCollinear ==
    /\ query.op = "offset"
    /\ query.segments = path
    /\ query.origin = <<0, 0>>
    /\ query.p = <<-1, 0>>
    /\ QDistSq(1) = 1
    /\ query.yc = 0

\* what C18 says of the response r of update to a force of angle error td at
\* a place with path direction pathdir and offset yc, from the fields s
SameTickContact(s, r, pathdir, yc, td, dt) ==
    /\ r.fields.first_contact
    /\ r.fields.yc_int = FAdd(s.yc_int, FMul(dt, yc))
    /\ r.fields.theta_d_int = FAdd(s.theta_d_int, FMul(dt, td))
    /\ r.fields.theta_p =
          wrap_to_pi(PushAngle(r.op, s.theta_p, s.inc_sign, td, yc,
                               r.fields.theta_d_int, r.fields.yc_int))
    /\ r.op = "Tracking" => r.fields.inc_sign = sign(td)
    /\ r.op \in PostContactOps
    /\ ~r.raised
    /\ r.velocity = scale(speed, rot2d(r.fields.theta_p, pathdir))

\* C18: on the first tick with f_norm >= force_min while first_contact is
\* false, update sets first_contact and applies the post-contact computation in
\* that tick: the integrators advance by dt*yc and dt*theta_d, theta_p and (in
\* Tracking) inc_sign are updated, and the velocity returned is speed times
\* pathdir rotated by the new theta_p
C18_ContactTickIsPostContact ==
    ~first_contact =>
        \A position \in Positions, force \in Forces, dt \in Dts :
            norm(force) >= force_min =>
                SameTickContact(Fields, Step(Fields, position, force, dt),
                                PathAt(position).pathdir, PathAt(position).yc,
                                signed_angle(PathAt(position).pathdir, unit(force)), dt)

\* C18 away from the corridor wall
C18_ContactTickInsideCorridor ==
    ~first_contact =>
        \A position \in Positions, force \in Forces, dt \in Dts :
            (norm(force) >= force_min /\ ~CorridorHit(PathAt(position).yc)) =>
                SameTickContact(Fields, Step(Fields, position, force, dt),
                                PathAt(position).pathdir, PathAt(position).yc,
                                signed_angle(PathAt(position).pathdir, unit(force)), dt)

\* what C19 says of the response r of update to a force of norm f_norm and
\* angle error td, from the fields s with s.first_contact true: theta_p comes
\* from one rule, the first in order whose condition holds
OneRuleInOrder(s, r, f_norm, td, yc) ==
    /\ f_norm < force_min =>
          /\ r.op = "Recovering"
          /\ r.fields.theta_p = wrap_to_pi(FSub(s.theta_p, FMul(s.inc_sign, con_inc)))
          /\ r.fields.inc_sign = s.inc_sign
    /\ (f_norm >= force_min /\ f_norm > force_max) =>
          /\ r.op = "Diverging"
          /\ r.fields.theta_p = wrap_to_pi(FAdd(s.theta_p, FMul(sign(td), div_inc)))
          /\ r.fields.inc_sign = s.inc_sign
    /\ (f_norm >= force_min /\ f_norm <= force_max) =>
          /\ r.op = "Tracking"
          /\ r.fields.theta_p =
                wrap_to_pi(TrackAngle(td, yc, r.fields.theta_d_int, r.fields.yc_int))
          /\ r.fields.inc_sign = sign(td)

C19_WitnessAtThresholds ==
    /\ force_max = force_min
    /\ call.op = "Tracking"
    /\ call.before

\* the angles theta_p can hold
Angles == (1 - PI)..PI

\* what C20 says of the response r of update on a Tracking input, from the
\* fields s: theta_p is the wrapped Tracking sum over the integrals as advanced
\* in this tick
TrackingSum(s, r, td, yc, dt) ==
    r.fields.theta_p =
        wrap_to_pi(FAdd(FAdd(FAdd(FMul(1 + k_theta, td), FMul(ky, yc)),
                             FMul(ki_theta, FAdd(s.theta_d_int, FMul(dt, td)))),
                        FMul(ki_y, FAdd(s.yc_int, FMul(dt, yc)))))

\* the responses r and r2 of two controllers store the same theta_p and
\* return the same
SameAngleAndOutput(r, r2) ==
    /\ r2.fields.theta_p = r.fields.theta_p
    /\ r2.raised = r.raised
    /\ r2.velocity = r.velocity

\* C20: on a Tracking tick (force_min <= f_norm <= force_max) the new theta_p
\* is the wrap of (1+k_theta)*theta_d + ky*yc + ki_theta*theta_d_int +
\* ki_y*yc_int with the integrals already advanced in this tick, and a
\* controller with the same integrals and any other theta_p stores the same
\* theta_p and returns the same output
C20_TrackingForgetsThetaP ==
    \A position \in Positions, force \in Forces, dt \in Dts :
        (norm(force) >= force_min /\ norm(force) <= force_max) =>
            \A r \in {Step(Fields, position, force, dt)} :
                /\ r.op = "Tracking"
                /\ TrackingSum(Fields, r,
                               signed_angle(PathAt(position).pathdir, unit(force)),
                               PathAt(position).yc, dt)
                /\ \A tp \in Angles :
                      \A r2 \in {Step([Fields EXCEPT !.theta_p = tp], position, force, dt)} :
                          SameAngleAndOutput(r, r2)

\* C20 witness: a Tracking tick after contact with dt = 1 at offset 1 and angle
\* error 0 left theta_p = ky*1 + ki_y*1, from a theta_p that was not 0
C20_Witness ==
    /\ call.op = "Tracking"
    /\ call.before
    /\ call.dt = 1
    /\ call.yc = 1
    /\ inc_sign = 0
    /\ theta_d_int = 0
    /\ yc_int = 1
    /\ theta_p = wrap_to_pi(ky + ki_y)
    /\ ~raised

\* C21: on a Diverging tick (f_norm > force_max and f_norm >= force_min) the
\* new theta_p is the wrap of the previous theta_p plus sign(theta_d)*div_inc,
\* theta_d being the signed angle of this tick's force to the path direction
\* and sign(0) = 0; the stored inc_sign has no part in it
C21_DivergingStepFollowsThetaD ==
    \A position \in Positions, force \in Forces, dt \in Dts :
        (norm(force) > force_max /\ norm(force) >= force_min) =>
            \A r \in {Step(Fields, position, force, dt)} :
                /\ r.op = "Diverging"
                /\ r.fields.theta_p =
                      wrap_to_pi(FAdd(theta_p,
                          FMul(sign(signed_angle(PathAt(position).pathdir, unit(force))),
                               div_inc)))
                /\ \A inc \in {-1, 0, 1} :
                      Step([Fields EXCEPT !.inc_sign = inc], position, force, dt)
                          .fields.theta_p = r.fields.theta_p

\* C21 witness: a Diverging tick taken from theta_p = 0 with inc_sign = 1
\* stepped to -div_inc, against inc_sign
C21_Witness ==
    /\ call.op = "Diverging"
    /\ ~call.before
    /\ inc_sign = 1
    /\ theta_p = -div_inc

\* C21 witness for sign(0) = 0: a Diverging tick taken from theta_p = 0 with
\* the force along the path left theta_p at 0
C21_WitnessNoStep ==
    /\ call.op = "Diverging"
    /\ ~call.before
    /\ theta_p = 0

\* what C22 says of the response r of update to a force of angle error td,
\* from the fields s: a Tracking tick writes sign(td) to inc_sign, every
\* other tick leaves inc_sign as it was
OnlyTrackingWritesIncSign(s, r, td) ==
    /\ r.op = "Tracking" => r.fields.inc_sign = sign(td)
    /\ r.op \in {"Seeking", "Recovering", "Diverging"} => r.fields.inc_sign = s.inc_sign

\* C22: inc_sign is written only by Tracking ticks, where it becomes
\* sign(theta_d); Seeking, Recovering and Diverging ticks leave it unchanged,
\* and it is +1 after construction and after reset, so before any contact
C22_OnlyTrackingWritesIncSign ==
    /\ \A position \in Positions, force \in Forces, dt \in Dts :
          \A r \in {Step(Fields, position, force, dt)} :
              OnlyTrackingWritesIncSign(Fields, r,
                  signed_angle(PathAt(position).pathdir, unit(force)))
    /\ call.op \in {"init", "reset"} => inc_sign = 1
    /\ ~first_contact => inc_sign = 1

\* C22 witness: a tick that lost contact after a Tracking tick had set
\* inc_sign to -1 kept it at -1
C22_Witness ==
    /\ call.op = "Recovering"
    /\ call.before
    /\ inc_sign = -1

\* what C23 says of the response r of update to a force of norm f_norm and
\* angle error td at offset yc, from the fields s: a Seeking tick changes no
\* field, every other tick is a post-contact tick and adds dt*yc and dt*td to
\* the integrals
IntegralsAdvanceAfterContact(s, r, f_norm, td, yc, dt) ==
    IF ~s.first_contact /\ f_norm < force_min
    THEN /\ r.op = "Seeking"
         /\ r.fields = s
    ELSE /\ r.op \in PostContactOps
         /\ r.fields.yc_int = FAdd(s.yc_int, FMul(dt, yc))
         /\ r.fields.theta_d_int = FAdd(s.theta_d_int, FMul(dt, td))

\* C23: a Seeking tick leaves yc_int, theta_d_int, theta_p and inc_sign
\* unchanged whatever dt is; every post-contact tick, Recovering and Diverging
\* ticks included, adds dt*yc to yc_int and dt*theta_d to theta_d_int
C23_IntegralsAdvanceAfterContact ==
    \A position \in Positions, force \in Forces, dt \in Dts :
        \A r \in {Step(Fields, position, force, dt)} :
            IntegralsAdvanceAfterContact(Fields, r, norm(force),
                signed_angle(PathAt(position).pathdir, unit(force)),
                PathAt(position).yc, dt)

\* C23 witness: a tick that had lost contact, with dt = 1 at offset 1, took
\* yc_int from 0 to 1
C23_Witness ==
    /\ call.op = "Recovering"
    /\ call.before
    /\ call.dt = 1
    /\ call.yc = 1
    /\ yc_int = 1

\* C23 witness before contact: a Seeking tick with dt = 1 at offset 1 left
\* the integrals at 0
C23_WitnessSeeking ==
    /\ call.op = "Seeking"
    /\ call.dt = 1
    /\ call.yc = 1
    /\ yc_int = 0
    /\ theta_d_int = 0

====
